---- MODULE Spec2Model ----
(***************************************************************************)
(* Model of the client-side script of the documentation site               *)
(* (src/assets/app.js): the Alpine.js components "notification" (a         *)
(* dismissible banner whose dismissal is persisted in localStorage) and    *)
(* "barChart" (a Highcharts bar chart of one of four benchmark datasets).  *)
(* Every handler is one synchronous step.                                  *)
(***************************************************************************)
EXTENDS Integers, Sequences, FiniteSets, TLC

VARIABLES
    storage,      \* localStorage: key -> JS value (Null when the key is absent)
    notif,        \* notification component per slot: status, version, isVisible
    chartStatus,  \* barChart component: "none", "created" (factory ran), "ready" (init ran)
    activeIndex,  \* barChart.activeIndex
    chartTarget,  \* charts living on this.$refs.chart, oldest first (chart options)
    renderCount,  \* number of highcharts.chart calls made by the current barChart component
    thisBenchmarks, \* barChart's own benchmarks list (this.benchmarks), << >> before it is mounted
    factoryData,  \* the data argument the barChart factory was called with (captured, << >> if none)
    lastHide,     \* history: version persisted by the most recent hide(), Null if none
    prevHide,     \* history: version persisted by the hide() before that one, Null if none
    shown,        \* history: versions whose banner an init() has shown since the last hide()
    lastCall      \* history: the most recent operation, its argument and whether it threw

vars == <<storage, notif, chartStatus, activeIndex, chartTarget, renderCount, thisBenchmarks,
         factoryData, lastHide, prevHide, shown, lastCall>>

----------------------------------------------------------------------------
(* JavaScript values that reach the code: null and strings.                *)

Null == [t |-> "null"]

Str(s) == [t |-> "string", v |-> s]

\* mutant of Falsy: only null counts, the empty string is taken as truthy
FalsyNullOnly(x) == x = Null

\* JS truthiness of a value that is null or a string: null and "" are falsy.
Falsy(x) == x = Null \/ x = Str("")

----------------------------------------------------------------------------
(* Inputs.                                                                 *)

\* version strings handed to the notification factory
Versions == {"", "v1", "v2"}

\* strings that may sit in storage before the page loads (older versions, junk)
StoredStrings == Versions \cup {"junk"}

NotificationKey == "_x_notificationKey"

\* another key of the same origin's localStorage (never named by this code)
OtherKey == "_x_other"

StorageKeys == {NotificationKey, OtherKey}

\* cap on the render counter of one barChart component
MaxRenders == 3

\* component slots of the page
Slots == {1, 2}

----------------------------------------------------------------------------
(* localStorage                                                            *)

\* localStorage.getItem(key): the stored string, or null when absent
LocalStorageGetItem(store, key) == store[key]

\* localStorage.setItem(key, value): stores the string form of value
LocalStorageSetItem(store, key, value) == [store EXCEPT ![key] = Str(value)]

----------------------------------------------------------------------------
(* barChart.benchmarks                                                     *)

Cat(n, c) == [name |-> n, color |-> c]

\* mutant of benchmarks: in the Arrays dataset the numbers of VineJS and Zod
\* are entered the other way round
benchmarksArraysSwapped ==
    LET five == << Cat("VineJS", "#ca5bf2"), Cat("Zod", "#408aff"), Cat("Yup", "#6f6dff"),
                   Cat("Valibot", "#334155"), Cat("Joi", "#ed7d31") >>
    IN  << [title |-> "Flat object", categories |-> five,
            numbers |-> << 13072620, 7420116, 746769, 6558725, 2252419 >>],
           [title |-> "Nested objects", categories |-> five,
            numbers |-> << 9445152, 3628979, 344506, 3363940, 1137401 >>],
           [title |-> "Arrays", categories |-> five,
            numbers |-> << 3254923, 6810515, 202143, 3064924, 795110 >>],
           [title |-> "Unions",
            categories |-> << Cat("VineJS", "#ca5bf2"), Cat("Zod", "#408aff"),
                              Cat("Valibot", "#334155"), Cat("Joi", "#ed7d31") >>,
            numbers |-> << 9949804, 2106060, 1124721, 957252 >>] >>

\* mutant of benchmarks: in the Unions dataset, where Yup was taken out,
\* Valibot is left with Yup's color
benchmarksUnionsRecolored ==
    LET five == << Cat("VineJS", "#ca5bf2"), Cat("Zod", "#408aff"), Cat("Yup", "#6f6dff"),
                   Cat("Valibot", "#334155"), Cat("Joi", "#ed7d31") >>
    IN  << [title |-> "Flat object", categories |-> five,
            numbers |-> << 13072620, 7420116, 746769, 6558725, 2252419 >>],
           [title |-> "Nested objects", categories |-> five,
            numbers |-> << 9445152, 3628979, 344506, 3363940, 1137401 >>],
           [title |-> "Arrays", categories |-> five,
            numbers |-> << 6810515, 3254923, 202143, 3064924, 795110 >>],
           [title |-> "Unions",
            categories |-> << Cat("VineJS", "#ca5bf2"), Cat("Zod", "#408aff"),
                              Cat("Valibot", "#6f6dff"), Cat("Joi", "#ed7d31") >>,
            numbers |-> << 9949804, 2106060, 1124721, 957252 >>] >>

\* mutant of benchmarks: the Unions dataset lists Yup but has no number for it
benchmarksUnionsListsYup ==
    LET five == << Cat("VineJS", "#ca5bf2"), Cat("Zod", "#408aff"), Cat("Yup", "#6f6dff"),
                   Cat("Valibot", "#334155"), Cat("Joi", "#ed7d31") >>
    IN  << [title |-> "Flat object", categories |-> five,
            numbers |-> << 13072620, 7420116, 746769, 6558725, 2252419 >>],
           [title |-> "Nested objects", categories |-> five,
            numbers |-> << 9445152, 3628979, 344506, 3363940, 1137401 >>],
           [title |-> "Arrays", categories |-> five,
            numbers |-> << 6810515, 3254923, 202143, 3064924, 795110 >>],
           [title |-> "Unions", categories |-> five,
            numbers |-> << 9949804, 2106060, 1124721, 957252 >>] >>

benchmarks ==
    << [title |-> "Flat object",
        categories |-> << Cat("VineJS", "#ca5bf2"), Cat("Zod", "#408aff"),
                          Cat("Yup", "#6f6dff"), Cat("Valibot", "#334155"),
                          Cat("Joi", "#ed7d31") >>,
        numbers |-> << 13072620, 7420116, 746769, 6558725, 2252419 >>],
       [title |-> "Nested objects",
        categories |-> << Cat("VineJS", "#ca5bf2"), Cat("Zod", "#408aff"),
                          Cat("Yup", "#6f6dff"), Cat("Valibot", "#334155"),
                          Cat("Joi", "#ed7d31") >>,
        numbers |-> << 9445152, 3628979, 344506, 3363940, 1137401 >>],
       [title |-> "Arrays",
        categories |-> << Cat("VineJS", "#ca5bf2"), Cat("Zod", "#408aff"),
                          Cat("Yup", "#6f6dff"), Cat("Valibot", "#334155"),
                          Cat("Joi", "#ed7d31") >>,
        numbers |-> << 6810515, 3254923, 202143, 3064924, 795110 >>],
       [title |-> "Unions",
        categories |-> << Cat("VineJS", "#ca5bf2"), Cat("Zod", "#408aff"),
                          Cat("Valibot", "#334155"), Cat("Joi", "#ed7d31") >>,
        numbers |-> << 9949804, 2106060, 1124721, 957252 >>] >>

\* JS array index (0-based) is in range: benchmarks[index] is defined
ValidIndex(index) == index >= 0 /\ index < Len(thisBenchmarks)

\* benchmarks[index] for a valid 0-based index
BenchmarkAt(index) == thisBenchmarks[index + 1]

\* data arguments handed to the barChart factory: none, or a list of numbers
FactoryData == {<< >>, << 100, 200, 300 >>}

\* index arguments handed to render: every valid one, and one beyond each end
RenderIndices == (0 - 1) .. Len(benchmarks)

----------------------------------------------------------------------------
(* humanFormat(y), the data-label formatter: the human-format package with  *)
(* its defaults (SI scale, at most two decimals, a space before the        *)
(* prefix). Strings are sequences of one-character strings.                *)

DigitChars == << "0", "1", "2", "3", "4", "5", "6", "7", "8", "9" >>

\* String(n) for a natural number n
RECURSIVE NatToChars(_)
NatToChars(n) ==
    IF n < 10 THEN << DigitChars[n + 1] >>
    ELSE NatToChars(n \div 10) \o << DigitChars[(n % 10) + 1] >>

\* the SI prefixes of the default scale that a natural number can reach
SIPrefixes ==
    << [prefix |-> "", factor |-> 1], [prefix |-> "k", factor |-> 1000],
       [prefix |-> "M", factor |-> 1000000], [prefix |-> "G", factor |-> 1000000000] >>

\* the largest prefix whose factor does not exceed y (the first one for 0)
SIPrefixOf(y) ==
    LET fit == {j \in 1..Len(SIPrefixes) : SIPrefixes[j].factor <= y}
    IN  IF fit = {} THEN SIPrefixes[1]
        ELSE SIPrefixes[CHOOSE j \in fit : \A l \in fit : l <= j]

\* String(x) for x = hundredths / 100: no trailing zeros, no bare point
HundredthsToChars(hundredths) ==
    LET whole == hundredths \div 100
        frac  == hundredths % 100
    IN  NatToChars(whole) \o
        (IF frac = 0 THEN << >>
         ELSE IF frac % 10 = 0 THEN << ".", DigitChars[(frac \div 10) + 1] >>
         ELSE << ".", DigitChars[(frac \div 10) + 1], DigitChars[(frac % 10) + 1] >>)

\* humanFormat(y) for a natural number y: y over the prefix's factor, rounded
\* to two decimals (Math.round), then the separator and the prefix if any
HumanFormat(y) ==
    LET p == SIPrefixOf(y)
        whole == y \div p.factor
        rest  == y % p.factor
        hundredths == whole * 100 + ((rest * 200 + p.factor) \div (2 * p.factor))
    IN  HundredthsToChars(hundredths) \o
        (IF p.prefix = "" THEN << >> ELSE << " ", p.prefix >>)

----------------------------------------------------------------------------
(* The chart handed to Highcharts and what Highcharts draws from it.       *)

\* mutant of ChartOptions: the colors and category names are a fixed list
\* instead of the benchmark's own
ChartOptionsFixedCategories(benchmark) ==
    [colors |-> << "#b335dd", "#9231ef", "#6f6dff" >>,
     type |-> "bar",
     categories |-> << "Yup", "Zod", "VineJS" >>,
     dataLabels |-> TRUE,
     formatter |-> "humanFormat",
     colorByPoint |-> TRUE,
     data |-> benchmark.numbers]

\* mutant of ChartOptions: the series draws the factory's data argument
\* instead of the benchmark's numbers
ChartOptionsDrawsFactoryData(benchmark) ==
    [colors |-> [k \in 1..Len(benchmark.categories) |-> benchmark.categories[k].color],
     type |-> "bar",
     categories |-> [k \in 1..Len(benchmark.categories) |-> benchmark.categories[k].name],
     dataLabels |-> TRUE,
     formatter |-> "humanFormat",
     colorByPoint |-> TRUE,
     data |-> factoryData]

\* mutant of ChartOptions: the last category is left out of the axis
ChartOptionsDropsCategory(benchmark) ==
    [colors |-> [k \in 1..Len(benchmark.categories) |-> benchmark.categories[k].color],
     type |-> "bar",
     categories |-> [k \in 1..(Len(benchmark.categories) - 1) |-> benchmark.categories[k].name],
     dataLabels |-> TRUE,
     formatter |-> "humanFormat",
     colorByPoint |-> TRUE,
     data |-> benchmark.numbers]

\* mutant of ChartOptions: the series has no dataLabels.formatter, so Highcharts
\* prints the plain number
ChartOptionsNoFormatter(benchmark) ==
    [colors |-> [k \in 1..Len(benchmark.categories) |-> benchmark.categories[k].color],
     type |-> "bar",
     categories |-> [k \in 1..Len(benchmark.categories) |-> benchmark.categories[k].name],
     dataLabels |-> TRUE,
     formatter |-> "default",
     colorByPoint |-> TRUE,
     data |-> benchmark.numbers]

\* the options object render builds from one benchmark
ChartOptions(benchmark) ==
    [colors |-> [k \in 1..Len(benchmark.categories) |-> benchmark.categories[k].color],
     type |-> "bar",
     categories |-> [k \in 1..Len(benchmark.categories) |-> benchmark.categories[k].name],
     dataLabels |-> TRUE,
     formatter |-> "humanFormat",
     colorByPoint |-> TRUE,
     data |-> benchmark.numbers]

\* highcharts.chart(container, options): the container's previous chart is
\* destroyed and the new chart is the only one on it
HighchartsChart(container, options) == << options >>

\* the bars of a drawn chart: one per data point; the point's name is the
\* x-axis category at its position (its position when there is none) and, with
\* colorByPoint, its color is taken from the color list in turn
Bars(options) ==
    [k \in 1..Len(options.data) |->
        [name |-> IF k <= Len(options.categories)
                  THEN options.categories[k] ELSE ToString(k - 1),
         color |-> IF Len(options.colors) = 0 THEN "default"
                   ELSE options.colors[((k - 1) % Len(options.colors)) + 1],
         value |-> options.data[k]]]

\* the data labels of a drawn chart: the formatter's result for each point's
\* y, or the plain number when the series has no formatter
DataLabels(options) ==
    [k \in 1..Len(options.data) |->
        IF options.formatter = "humanFormat"
        THEN HumanFormat(options.data[k])
        ELSE NatToChars(options.data[k])]

\* the chart the user sees on the target: the last one placed on it
Displayed == chartTarget[Len(chartTarget)]

----------------------------------------------------------------------------
(* Initial state: the script has registered both components; none is       *)
(* mounted yet; localStorage holds whatever earlier visits left.           *)

NoNotification == [status |-> "none", version |-> "", isVisible |-> FALSE]

Call(op, slot, arg, threw) == [op |-> op, slot |-> slot, arg |-> arg, threw |-> threw]

Init ==
    /\ storage \in [StorageKeys -> {Null} \cup {Str(s) : s \in StoredStrings}]
    /\ storage[OtherKey] \in {Null, Str("junk")}
    /\ notif = [i \in Slots |-> NoNotification]
    /\ chartStatus = "none"
    /\ activeIndex = 0
    /\ chartTarget = << >>
    /\ renderCount = 0
    /\ thisBenchmarks = << >>
    /\ factoryData = << >>
    /\ lastHide = Null
    /\ prevHide = Null
    /\ shown = {}
    /\ lastCall = Call("start", 0, 0, FALSE)

----------------------------------------------------------------------------
(* notification                                                            *)

\* mutant of ShouldShow: && written for ||, an absent key no longer shows the banner
ShouldShowTruthyOnly(notificationKey, version) ==
    ~Falsy(notificationKey) /\ notificationKey # Str(version)

\* mutant of ShouldShow: the comparison with the version is dropped
ShouldShowAbsentOnly(notificationKey, version) ==
    Falsy(notificationKey)

\* the condition under which init shows the banner
ShouldShow(notificationKey, version) ==
    Falsy(notificationKey) \/ notificationKey # Str(version)

\* Alpine mounts x-data="notification(version)" in slot i: the factory's object
NotificationFactory(i, version) ==
    /\ notif' = [notif EXCEPT ![i] =
                    [status |-> "created", version |-> version, isVisible |-> FALSE]]
    /\ lastCall' = Call("notification", i, 0, FALSE)
    /\ UNCHANGED <<storage, chartStatus, activeIndex, chartTarget, renderCount, thisBenchmarks, factoryData,
                   lastHide, prevHide, shown>>

\* mutant of NotificationInit: isVisible is assigned the condition's value, so
\* init can also hide the banner
NotificationInitAssigns(i) ==
    /\ notif[i].status # "none"
    /\ LET notificationKey == LocalStorageGetItem(storage, NotificationKey)
       IN  notif' = [notif EXCEPT
                        ![i].status = "ready",
                        ![i].isVisible = ShouldShow(notificationKey, notif[i].version)]
    /\ shown' = IF ShouldShow(LocalStorageGetItem(storage, NotificationKey), notif[i].version)
                THEN shown \cup {notif[i].version} ELSE shown
    /\ lastCall' = Call("init", i, 0, FALSE)
    /\ UNCHANGED <<storage, chartStatus, activeIndex, chartTarget, renderCount, thisBenchmarks,
                   factoryData, lastHide, prevHide>>

\* mutant of NotificationInit: init also records the version as seen
NotificationInitPersists(i) ==
    /\ notif[i].status # "none"
    /\ LET notificationKey == LocalStorageGetItem(storage, NotificationKey)
       IN  notif' = [notif EXCEPT
                        ![i].status = "ready",
                        ![i].isVisible =
                            IF ShouldShow(notificationKey, notif[i].version)
                            THEN TRUE ELSE @]
    /\ storage' = LocalStorageSetItem(storage, NotificationKey, notif[i].version)
    /\ shown' = IF ShouldShow(LocalStorageGetItem(storage, NotificationKey), notif[i].version)
                THEN shown \cup {notif[i].version} ELSE shown
    /\ lastCall' = Call("init", i, 0, FALSE)
    /\ UNCHANGED <<chartStatus, activeIndex, chartTarget, renderCount, thisBenchmarks, factoryData,
                   lastHide, prevHide>>

\* init(): run by Alpine right after the factory; callable again afterwards
NotificationInit(i) ==
    /\ notif[i].status # "none"
    /\ LET notificationKey == LocalStorageGetItem(storage, NotificationKey)
       IN  notif' = [notif EXCEPT
                        ![i].status = "ready",
                        ![i].isVisible =
                            IF ShouldShow(notificationKey, notif[i].version)
                            THEN TRUE ELSE @]
    /\ shown' = IF ShouldShow(LocalStorageGetItem(storage, NotificationKey), notif[i].version)
                THEN shown \cup {notif[i].version} ELSE shown
    /\ lastCall' = Call("init", i, 0, FALSE)
    /\ UNCHANGED <<storage, chartStatus, activeIndex, chartTarget, renderCount, thisBenchmarks, factoryData,
                   lastHide, prevHide>>

\* mutant of NotificationHide: the banner is hidden but the version is not persisted
NotificationHideNoPersist(i) ==
    /\ notif[i].status = "ready"
    /\ notif' = [notif EXCEPT ![i].isVisible = FALSE]
    /\ lastHide' = Str(notif[i].version)
    /\ prevHide' = lastHide
    /\ shown' = {}
    /\ lastCall' = Call("hide", i, 0, FALSE)
    /\ UNCHANGED <<storage, chartStatus, activeIndex, chartTarget, renderCount, thisBenchmarks, factoryData>>

\* mutant of NotificationHide: the handler toggles the banner instead of hiding it
NotificationHideToggles(i) ==
    /\ notif[i].status = "ready"
    /\ storage' = LocalStorageSetItem(storage, NotificationKey, notif[i].version)
    /\ notif' = [notif EXCEPT ![i].isVisible = ~@]
    /\ lastHide' = Str(notif[i].version)
    /\ prevHide' = lastHide
    /\ shown' = {}
    /\ lastCall' = Call("hide", i, 0, FALSE)
    /\ UNCHANGED <<chartStatus, activeIndex, chartTarget, renderCount, thisBenchmarks, factoryData>>

\* mutant of NotificationHide: isVisible is shared, every banner of the same
\* version is hidden with this one
NotificationHideShared(i) ==
    /\ notif[i].status = "ready"
    /\ storage' = LocalStorageSetItem(storage, NotificationKey, notif[i].version)
    /\ notif' = [j \in Slots |->
                    IF notif[j].status # "none" /\ notif[j].version = notif[i].version
                    THEN [notif[j] EXCEPT !.isVisible = FALSE] ELSE notif[j]]
    /\ lastHide' = Str(notif[i].version)
    /\ prevHide' = lastHide
    /\ shown' = {}
    /\ lastCall' = Call("hide", i, 0, FALSE)
    /\ UNCHANGED <<chartStatus, activeIndex, chartTarget, renderCount, thisBenchmarks, factoryData>>

\* hide(): the banner's dismiss handler
NotificationHide(i) ==
    /\ notif[i].status = "ready"
    /\ storage' = LocalStorageSetItem(storage, NotificationKey, notif[i].version)
    /\ notif' = [notif EXCEPT ![i].isVisible = FALSE]
    /\ lastHide' = Str(notif[i].version)
    /\ prevHide' = lastHide
    /\ shown' = {}
    /\ lastCall' = Call("hide", i, 0, FALSE)
    /\ UNCHANGED <<chartStatus, activeIndex, chartTarget, renderCount, thisBenchmarks, factoryData>>

----------------------------------------------------------------------------
(* barChart                                                                *)

\* Alpine mounts x-data="barChart" on a fresh element: the factory's object
BarChartFactory(data) ==
    /\ chartStatus' = "created"
    /\ activeIndex' = 0
    /\ chartTarget' = << >>
    /\ renderCount' = 0
    /\ thisBenchmarks' = benchmarks
    /\ factoryData' = data
    /\ lastCall' = Call("barChart", 0, 0, FALSE)
    /\ UNCHANGED <<storage, notif, lastHide, prevHide, shown>>

\* mutant of RenderBody: the chart is drawn but activeIndex is not assigned
RenderBodyKeepsIndex(index) ==
    /\ UNCHANGED <<activeIndex, thisBenchmarks>>
    /\ IF ValidIndex(index)
       THEN /\ chartTarget' = HighchartsChart(chartTarget, ChartOptions(BenchmarkAt(index)))
            /\ renderCount' = renderCount + 1
       ELSE UNCHANGED <<chartTarget, renderCount>>

\* mutant of RenderBody: the benchmark's numbers are reversed in place before
\* they are drawn
RenderBodyReversesNumbers(index) ==
    /\ activeIndex' = index
    /\ IF ValidIndex(index)
       THEN LET b == BenchmarkAt(index)
                n == Len(b.numbers)
                reversed == [b EXCEPT !.numbers = [k \in 1..n |-> b.numbers[n + 1 - k]]]
            IN  /\ thisBenchmarks' = [thisBenchmarks EXCEPT ![index + 1] = reversed]
                /\ chartTarget' = HighchartsChart(chartTarget, ChartOptions(reversed))
                /\ renderCount' = renderCount + 1
       ELSE UNCHANGED <<thisBenchmarks, chartTarget, renderCount>>

\* the body of render(index): activeIndex is assigned first; reading
\* benchmark.categories of an undefined benchmark throws a TypeError before
\* highcharts.chart is called
RenderBody(index) ==
    /\ activeIndex' = index
    /\ UNCHANGED thisBenchmarks
    /\ IF ValidIndex(index)
       THEN /\ chartTarget' = HighchartsChart(chartTarget, ChartOptions(BenchmarkAt(index)))
            /\ renderCount' = renderCount + 1
       ELSE UNCHANGED <<chartTarget, renderCount>>

\* mutant of BarChartRender: the selection is also written to localStorage
BarChartRenderPersists(index) ==
    /\ chartStatus = "ready"
    /\ ValidIndex(index) => renderCount < MaxRenders
    /\ RenderBody(index)
    /\ storage' = LocalStorageSetItem(storage, OtherKey, "junk")
    /\ lastCall' = Call("render", 0, index, ~ValidIndex(index))
    /\ UNCHANGED <<notif, chartStatus, factoryData, lastHide, prevHide, shown>>

\* render(index): the dataset picker's click handler
BarChartRender(index) ==
    /\ chartStatus = "ready"
    /\ ValidIndex(index) => renderCount < MaxRenders
    /\ RenderBody(index)
    /\ lastCall' = Call("render", 0, index, ~ValidIndex(index))
    /\ UNCHANGED <<storage, notif, chartStatus, factoryData, lastHide, prevHide, shown>>

\* mutant of BarChartInit: the component is marked ready but nothing is rendered
BarChartInitSkipsRender ==
    /\ chartStatus # "none"
    /\ renderCount < MaxRenders
    /\ chartStatus' = "ready"
    /\ lastCall' = Call("chartInit", 0, 0, FALSE)
    /\ UNCHANGED <<storage, notif, activeIndex, chartTarget, renderCount, thisBenchmarks,
                   factoryData, lastHide, prevHide, shown>>

\* init(): run by Alpine right after the factory; callable again afterwards
BarChartInit ==
    /\ chartStatus # "none"
    /\ renderCount < MaxRenders
    /\ RenderBody(0)
    /\ chartStatus' = "ready"
    /\ lastCall' = Call("chartInit", 0, 0, FALSE)
    /\ UNCHANGED <<storage, notif, factoryData, lastHide, prevHide, shown>>

----------------------------------------------------------------------------
(* One page with one notification banner and one chart (a single tab).     *)

NextOver(slots) ==
    \/ \E i \in slots, version \in Versions : NotificationFactory(i, version)
    \/ \E i \in slots : NotificationInit(i)
    \/ \E i \in slots : NotificationHide(i)
    \/ \E data \in FactoryData : BarChartFactory(data)
    \/ BarChartInit
    \/ \E index \in RenderIndices : BarChartRender(index)

Next == NextOver({1})

Spec == Init /\ [][Next]_vars

\* Two notification components over the same localStorage (two tabs of the
\* site, or two banners on one page).
TabsNext ==
    \/ \E i \in Slots, version \in Versions : NotificationFactory(i, version)
    \/ \E i \in Slots : NotificationInit(i)
    \/ \E i \in Slots : NotificationHide(i)

SpecTabs == Init /\ [][TabsNext]_vars

----------------------------------------------------------------------------
(* Properties of the notification banner.                                  *)

\* the value under the notification key
PersistedKey == storage[NotificationKey]

\* the last operation was init() on the notification of slot i
InitRan(i) == lastCall.op = "init" /\ lastCall.slot = i

\* the last operation was hide() on the notification of slot i
HideRan(i) == lastCall.op = "hide" /\ lastCall.slot = i

\* C1: for every version V, when the persisted key equals V the banner is
\* not visible after init().
C1_HiddenWhenKeyEqualsVersion ==
    \A i \in Slots :
        (InitRan(i) /\ PersistedKey = Str(notif[i].version)) => ~notif[i].isVisible

\* C2: for every version V, when the key is absent from storage the banner is
\* visible after init(), and init() did not throw.
C2_VisibleWhenKeyAbsent ==
    \A i \in Slots :
        (InitRan(i) /\ PersistedKey = Null) => (notif[i].isVisible /\ ~lastCall.threw)

C2_Witness ==
    \E i \in Slots :
        InitRan(i) /\ PersistedKey = Null /\ notif[i].version = "v1" /\ notif[i].isVisible

\* C3: after hide() on a component created with version V the persisted key
\* equals V and isVisible is false, whatever the state before.
C3_HidePersistsAndHides ==
    \A i \in Slots :
        HideRan(i) => (PersistedKey = Str(notif[i].version) /\ ~notif[i].isVisible)

C3_Witness ==
    \E i \in Slots :
        HideRan(i) /\ notif[i].version = "v2" /\ PersistedKey = Str("v2")
                   /\ storage[OtherKey] = Str("junk")

\* C4: in every reachable state isVisible is true only if the persisted key
\* differs from the component's version.
C4_VisibleOnlyIfKeyDiffers ==
    \A i \in Slots :
        notif[i].isVisible => PersistedKey # Str(notif[i].version)

\* C5: once hide() has run under version V, every later init() of a component
\* with the same version V leaves the banner hidden, as long as no hide() under
\* another version came in between.
C5_ShownOncePerVersion ==
    \A i \in Slots :
        (InitRan(i) /\ lastHide = Str(notif[i].version)) => ~notif[i].isVisible

\* C6: for every version V and every stored value S that is present and not
\* equal to V, the banner is visible after init(), and init() did not throw.
C6_VisibleWhenKeyDiffers ==
    \A i \in Slots :
        (InitRan(i) /\ PersistedKey # Null /\ PersistedKey # Str(notif[i].version))
            => (notif[i].isVisible /\ ~lastCall.threw)

C6_Witness ==
    \E i \in Slots :
        InitRan(i) /\ PersistedKey = Str("junk") /\ notif[i].version = "v1"
                   /\ notif[i].isVisible

----------------------------------------------------------------------------
(* Properties of the chart.                                                *)

\* the last operation was render(index)
RenderRan == lastCall.op = "render"

\* the chart on the target is the one built from benchmarks[activeIndex]
ShowsActiveDataset ==
    /\ ValidIndex(activeIndex)
    /\ chartTarget # << >>
    /\ Displayed = ChartOptions(BenchmarkAt(activeIndex))

\* C7: in every reachable state of the chart component activeIndex is within
\* [0, benchmarks.length).
C7_ActiveIndexInRange ==
    chartStatus # "none" => ValidIndex(activeIndex)

\* C8: after render(index) with an index outside [0, benchmarks.length)
\* activeIndex is still a valid index and the displayed chart is the dataset at
\* activeIndex.
C8_OutOfRangeRejectedOrClamped ==
    (RenderRan /\ ~ValidIndex(lastCall.arg)) => ShowsActiveDataset

\* C9: after render(index) with a valid index, activeIndex is that index and
\* the target holds exactly one chart, the one built from benchmarks[activeIndex].
C9_RenderSelectsAndReplaces ==
    (RenderRan /\ ValidIndex(lastCall.arg)) =>
        /\ activeIndex = lastCall.arg
        /\ Len(chartTarget) = 1
        /\ ShowsActiveDataset

C9_Witness ==
    /\ RenderRan
    /\ lastCall.arg = 3
    /\ renderCount >= 2
    /\ activeIndex = 3
    /\ Len(chartTarget) = 1

\* C10: for every valid index i the bars drawn by render(i) are those of
\* benchmarks[i], in dataset order: bar k has name categories[k].name, color
\* categories[k].color and value numbers[k]; index 0 gives the five bars VineJS,
\* Zod, Yup, Valibot, Joi with the values of the flat-object benchmark.
C10_BarsComeFromDataset ==
    (RenderRan /\ ValidIndex(lastCall.arg)) =>
        LET b == BenchmarkAt(lastCall.arg)
            bars == Bars(Displayed)
        IN  /\ Len(bars) = Len(b.categories)
            /\ Len(bars) = Len(b.numbers)
            /\ \A k \in 1..Len(bars) :
                  bars[k] = [name |-> b.categories[k].name,
                             color |-> b.categories[k].color,
                             value |-> b.numbers[k]]
            /\ \A j \in 1..Len(benchmarks) :
                  j # lastCall.arg + 1 =>
                      [k \in 1..Len(bars) |-> bars[k].value] # benchmarks[j].numbers
            /\ lastCall.arg = 0 =>
                  /\ [k \in 1..Len(bars) |-> bars[k].name]
                        = << "VineJS", "Zod", "Yup", "Valibot", "Joi" >>
                  /\ [k \in 1..Len(bars) |-> bars[k].value]
                        = << 13072620, 7420116, 746769, 6558725, 2252419 >>

C10_Witness ==
    /\ RenderRan
    /\ lastCall.arg = 0
    /\ renderCount >= 2
    /\ Len(Bars(Displayed)) = 5
    /\ Bars(Displayed)[1].name = "VineJS"
    /\ Bars(Displayed)[5].value = 2252419

\* C11: for every valid index i the chart drawn by render(i) has as many
\* categories as numbers, and as many colors.
C11_CategoryCountEqualsNumbers ==
    (RenderRan /\ ValidIndex(lastCall.arg)) =>
        /\ Len(Displayed.categories) = Len(Displayed.data)
        /\ Len(Displayed.colors) = Len(Displayed.data)
        /\ Len(Displayed.data) = Len(BenchmarkAt(lastCall.arg).numbers)

C11_Witness ==
    /\ RenderRan
    /\ lastCall.arg = 3
    /\ Len(chartTarget) = 1
    /\ Len(Displayed.categories) = 4
    /\ Len(Displayed.data) = 4

\* C12: every dataset of the component's benchmark list has as many
\* categories as numbers, in every reachable state.
C12_DatasetLengthsAgree ==
    \A j \in 1..Len(thisBenchmarks) :
        Len(thisBenchmarks[j].categories) = Len(thisBenchmarks[j].numbers)

C12_Witness ==
    /\ chartStatus = "ready"
    /\ renderCount >= 2
    /\ Len(thisBenchmarks) = 4
    /\ Len(thisBenchmarks[1].numbers) = 5
    /\ Len(thisBenchmarks[4].categories) = 4

\* C13: init() and render(index), for any index, leave the benchmark list as
\* it was: every title, category and number, and the number and order of datasets.
C13_DatasetsImmutable ==
    [][lastCall'.op \in {"render", "chartInit"} => thisBenchmarks' = thisBenchmarks]_vars

C13_Witness ==
    /\ RenderRan
    /\ lastCall.threw
    /\ renderCount >= 2
    /\ thisBenchmarks = benchmarks

----------------------------------------------------------------------------
(* Storage, labels and acknowledgement history.                            *)

\* C14: only hide() writes to storage, and it writes the notification key and
\* no other; init() leaves storage as it is, so a banner that an init() has
\* shown and that was not dismissed since is shown by every later init().
C14_OnlyHideWritesOneKey ==
    [][/\ storage' # storage => lastCall'.op = "hide"
       /\ lastCall'.op = "hide" =>
             /\ \A k \in StorageKeys \ {NotificationKey} : storage'[k] = storage[k]
             /\ storage'[NotificationKey] = Str(notif[lastCall'.slot].version)
       /\ lastCall'.op = "init" =>
             /\ storage' = storage
             /\ notif[lastCall'.slot].version \in shown
                    => notif'[lastCall'.slot].isVisible]_vars

C14_Witness ==
    \E i \in Slots :
        /\ InitRan(i)
        /\ notif[i].version = "v1"
        /\ notif[i].isVisible
        /\ shown = {"v1", "v2"}
        /\ PersistedKey = Str("junk")
        /\ storage[OtherKey] = Str("junk")

\* C15: in every dataset that has a VineJS and a Zod entry the VineJS number
\* is between 5 and 10 times the Zod number.
C15_VineFiveToTenTimesZod ==
    \A j \in 1..Len(thisBenchmarks) :
        LET b == thisBenchmarks[j]
        IN  \A v, z \in 1..Len(b.categories) :
                (b.categories[v].name = "VineJS" /\ b.categories[z].name = "Zod") =>
                    (5 * b.numbers[z] <= b.numbers[v] /\ b.numbers[v] <= 10 * b.numbers[z])

\* every data label of the displayed chart is humanFormat of its bar's value
LabelsAreHumanFormat ==
    /\ Len(DataLabels(Displayed)) = Len(BenchmarkAt(lastCall.arg).numbers)
    /\ \A k \in 1..Len(DataLabels(Displayed)) :
          DataLabels(Displayed)[k] = HumanFormat(BenchmarkAt(lastCall.arg).numbers[k])

C17_LastAcknowledgementWins ==
    \A i \in Slots :
        (InitRan(i) /\ prevHide # Null /\ lastHide # Null /\ prevHide # lastHide) =>
            /\ Str(notif[i].version) = prevHide => notif[i].isVisible
            /\ Str(notif[i].version) = lastHide => ~notif[i].isVisible

\* C18: every operation runs to completion as one step: none is cut short,
\* and no state is left in which activeIndex has changed without the chart
\* being redrawn, or the key written without isVisible being cleared.
C18_NoHalfDoneOperation ==
    /\ ~lastCall.threw
    /\ chartStatus = "ready" => ShowsActiveDataset
    /\ \A i \in Slots :
          HideRan(i) => (PersistedKey = Str(notif[i].version) /\ ~notif[i].isVisible)

\* C20: a stored empty string is treated like an absent key: for every
\* version V, the empty string included, the banner is visible after init().
C20_EmptyStoredValueShows ==
    \A i \in Slots :
        (InitRan(i) /\ PersistedKey = Str("")) => notif[i].isVisible

C20_Witness ==
    \E i \in Slots :
        InitRan(i) /\ PersistedKey = Str("") /\ notif[i].version = "" /\ notif[i].isVisible

\* C19: with two notification components over the same storage, hide() on one
\* changes nothing of the other: the other's banner stays visible, although the
\* persisted key now equals its version, until it is itself dismissed or mounted anew.
C19_HideLeavesOtherInstance ==
    [][\A i, j \in Slots :
          /\ (i # j /\ lastCall'.op = "hide" /\ lastCall'.slot = i) => notif'[j] = notif[j]
          /\ (notif[j].isVisible /\ ~notif'[j].isVisible) =>
                (lastCall'.slot = j /\ lastCall'.op \in {"hide", "notification"})]_vars

C19_Witness ==
    /\ HideRan(1)
    /\ notif[1].status = "ready" /\ notif[2].status = "ready"
    /\ notif[1].version = "v1" /\ notif[2].version = "v1"
    /\ ~notif[1].isVisible
    /\ notif[2].isVisible
    /\ PersistedKey = Str("v1")

----------------------------------------------------------------------------
(* Lifecycle, data and algebraic properties.                               *)

\* C21: a notification component starts hidden; only its own init() sets
\* isVisible to true and init() never sets it to false; hide() never sets it to
\* true; so after hide() the banner stays hidden until init() runs on it again.
C21_OnlyInitShows ==
    [][\A i \in Slots :
          /\ notif'[i].status = "created" => ~notif'[i].isVisible
          /\ (~notif[i].isVisible /\ notif'[i].isVisible) =>
                (lastCall'.op = "init" /\ lastCall'.slot = i)
          /\ (lastCall'.op = "init" /\ notif[i].isVisible) => notif'[i].isVisible
          /\ (lastCall'.op = "hide" /\ lastCall'.slot = i) => ~notif'[i].isVisible
          /\ (lastCall'.op = "hide" /\ lastCall'.slot # i) =>
                notif'[i].isVisible = notif[i].isVisible]_vars

C21_Witness ==
    /\ InitRan(2)
    /\ notif[2].isVisible
    /\ notif[2].version = "v2"
    /\ notif[1].status = "ready"
    /\ notif[1].version = "v1"
    /\ ~notif[1].isVisible
    /\ lastHide = Str("v1")
    /\ PersistedKey = Str("v1")

\* C22: init() of the chart component renders the first dataset: afterwards
\* activeIndex = 0 and the displayed chart is the one built from benchmarks[0];
\* init() performs exactly one render, the first one of a newly mounted component.
C22_InitRendersFirstDataset ==
    [][lastCall'.op = "chartInit" =>
          /\ activeIndex' = 0
          /\ chartTarget' = << ChartOptions(benchmarks[1]) >>
          /\ renderCount' = renderCount + 1
          /\ chartStatus = "created" => renderCount' = 1]_vars

C22_Witness ==
    /\ lastCall.op = "chartInit"
    /\ chartStatus = "ready"
    /\ renderCount = 1
    /\ activeIndex = 0
    /\ Len(chartTarget) = 1
    /\ Displayed.data = << 13072620, 7420116, 746769, 6558725, 2252419 >>

\* C23: in every dataset the VineJS entry has the largest number of all
\* entries of that dataset.
C23_VineIsFastest ==
    \A j \in 1..Len(thisBenchmarks) :
        LET b == thisBenchmarks[j]
        IN  /\ \E v \in 1..Len(b.categories) : b.categories[v].name = "VineJS"
            /\ \A v, k \in 1..Len(b.categories) :
                  (b.categories[v].name = "VineJS" /\ k # v) => b.numbers[k] < b.numbers[v]

C23_Witness ==
    /\ chartStatus = "ready"
    /\ Len(thisBenchmarks) = 4
    /\ thisBenchmarks[3].categories[1].name = "VineJS"
    /\ thisBenchmarks[3].numbers[1] = 6810515
    /\ thisBenchmarks[3].numbers[2] = 3254923

\* C24: a library name has the same color in every dataset it occurs in, and
\* within one dataset no two categories share a name or a color; the bars of a
\* drawn chart therefore have pairwise different names and colors.
C24_OneColorPerLibrary ==
    /\ \A j, l \in 1..Len(thisBenchmarks) :
          \A k \in 1..Len(thisBenchmarks[j].categories) :
              \A n \in 1..Len(thisBenchmarks[l].categories) :
                  LET c == thisBenchmarks[j].categories[k]
                      d == thisBenchmarks[l].categories[n]
                  IN  /\ c.name = d.name => c.color = d.color
                      /\ (j = l /\ k # n) => (c.name # d.name /\ c.color # d.color)
    /\ (RenderRan /\ ValidIndex(lastCall.arg)) =>
          \A k, n \in 1..Len(Bars(Displayed)) :
              k # n => /\ Bars(Displayed)[k].name # Bars(Displayed)[n].name
                       /\ Bars(Displayed)[k].color # Bars(Displayed)[n].color

C24_Witness ==
    /\ RenderRan
    /\ lastCall.arg = 3
    /\ Len(chartTarget) = 1
    /\ Bars(Displayed)[3].name = "Valibot"
    /\ Bars(Displayed)[3].color = "#334155"
    /\ thisBenchmarks[1].categories[4].color = "#334155"

\* C25: hide() is idempotent: a second hide() right after a hide() on the same
\* component leaves the persisted key, every other key and isVisible as they were.
C25_HideIdempotent ==
    [][(lastCall.op = "hide" /\ lastCall'.op = "hide" /\ lastCall'.slot = lastCall.slot) =>
          (storage' = storage /\ notif' = notif)]_vars

C25_Witness ==
    \E i \in Slots :
        /\ HideRan(i)
        /\ lastHide = Str("v1")
        /\ prevHide = Str("v1")
        /\ notif[i].version = "v1"
        /\ ~notif[i].isVisible
        /\ PersistedKey = Str("v1")

\* what render(i) leaves behind for a valid i, written from the benchmark
\* literal and i alone: activeIndex and the one chart on the target
RenderResult(i) ==
    LET b == benchmarks[i + 1]
    IN  << i,
           << [colors |-> [k \in 1..Len(b.categories) |-> b.categories[k].color],
               type |-> "bar",
               categories |-> [k \in 1..Len(b.categories) |-> b.categories[k].name],
               dataLabels |-> TRUE,
               formatter |-> "humanFormat",
               colorByPoint |-> TRUE,
               data |-> b.numbers] >> >>

\* C26: for every valid i, activeIndex and the chart after render(i) depend on
\* i alone: not on the renders before it, not on the factory's data argument;
\* and render(i) right after render(i) changes neither.
C26_RenderIdempotent ==
    [][(lastCall'.op = "render" /\ ValidIndex(lastCall'.arg)) =>
          /\ << activeIndex', chartTarget' >> = RenderResult(lastCall'.arg)
          /\ lastCall = lastCall' => UNCHANGED << activeIndex, chartTarget, thisBenchmarks >>]_vars

C26_Witness ==
    /\ RenderRan
    /\ lastCall.arg = 2
    /\ renderCount = 3
    /\ factoryData = << 100, 200, 300 >>
    /\ Displayed.data = << 6810515, 3254923, 202143, 3064924, 795110 >>

\* C27: the two components do not interfere: render(index) and the chart's
\* init() leave storage and every notification as they are, and a
\* notification's factory, init() and hide() leave the chart component as it is.
C27_ComponentsIndependent ==
    [][/\ lastCall'.op \in {"render", "chartInit", "barChart"} =>
             (storage' = storage /\ notif' = notif)
       /\ lastCall'.op \in {"init", "hide", "notification"} =>
             UNCHANGED << activeIndex, chartTarget, chartStatus, thisBenchmarks,
                          factoryData >>]_vars

C27_Witness ==
    /\ RenderRan
    /\ lastCall.arg = 1
    /\ renderCount >= 2
    /\ notif[1].status = "ready"
    /\ notif[1].version = "v1"
    /\ notif[1].isVisible
    /\ lastHide = Str("v2")
    /\ PersistedKey = Str("v2")

====
